---------------------------- MODULE Spec2Model ----------------------------
(***************************************************************************)
(* SmartArium sensor acquisition core: the range mapper (Utils.cpp), the   *)
(* interval timer Utils::Ticker (Utils.h), and the Sensors class           *)
(* (Sensors.h / Sensors.cpp) with its light-sensor calibration.            *)
(*                                                                         *)
(* Number representation.  TLC's integers are 32-bit signed, which is      *)
(* exactly C++ int on the ESP32 target, so an int is a TLC integer and     *)
(* every int operation that may leave the range is computed on 16-bit      *)
(* halves.  A uint32_t (millis() timestamps, Ticker fields) is a pair      *)
(* <<hi, lo>> of 16-bit limbs, value hi * 2^16 + lo, with arithmetic       *)
(* modulo 2^32.                                                            *)
(***************************************************************************)
EXTENDS Integers, Sequences, FiniteSets, TLC

VARIABLES
    \* ---- a free-standing Utils::Ticker and the record of the last call on it
    tk,          \* [period, last], both uint32_t
    tkCall,      \* [op, now, ret, pre]: last call, its argument, result, pre-state
    tkFire,      \* <<timestamp>> of the latest due() that returned true, or <<>>
    tkPrevFire,  \* <<timestamp>> of the firing before that one, or <<>>
    tkPrevNow,   \* <<timestamp>> given to the previous due() call, or <<>>
    tkMono,      \* TRUE while no set() was called and timestamps never decreased
    \* ---- one call of the range mapper
    mArgs,       \* [x, in_min, in_max, out_min, out_max]: the arguments
    mOp,         \* "none", or what was applied: "mapConstrain", "mapConstrainBi",
                 \* "mirrored" (mapConstrainBi, then again with both ranges exchanged),
                 \* "twice" (mapConstrain, then again with another x)
    mRes,        \* [trap, v]: the value returned, or a trapped signed overflow
    mArgs2,      \* the arguments of a second call made for comparison with the first
    mRes2,       \* [trap, v]: what that second call returned
    \* ---- the Sensors object
    cur_,        \* Readings: the current snapshot
    bootMs_,     \* uint32_t: millis() at begin()
    ldrMin_,     \* int: calibration minimum
    ldrMax_,     \* int: calibration maximum
    sampleTick,  \* Utils::Ticker{SENSOR_SAMPLE_MS}
    \* ---- its environment and the record of what was done to it
    millis,      \* uint32_t: the millisecond clock, as last read by the caller
    phase,       \* "constructed" (before begin()) or "running"
    call,        \* [op, due, cal]: last call; whether the sample timer fired in it;
                 \* calibrating(now) for the timestamp it was given
    lastIn,      \* [t, h, soil, ldr]: what the sensors returned in the latest due update
    got,         \* <<snapshot>> returned by current() if a Current step was the last
                 \* call, else <<>>
    nCalls,      \* number of update() calls so far
    nDue,        \* number of due updates so far
    obsMin,      \* smallest raw light value sampled so far (4096: none yet)
    obsMax,      \* largest raw light value sampled so far (-1: none yet)
    allCal,      \* TRUE while every due update so far had calibrating(now) true
    frozen,      \* TRUE once a due update happened with calibrating(now) false
    wrapped,     \* TRUE once the millisecond clock has wrapped around
    prevValid,   \* TRUE if tempC and humidity were both valid before the latest due update
    lastGot,     \* <<snapshot>> returned by the latest current() since the latest due
                 \* update, or <<>> if there was none
    since,       \* which of "calibrating" (a calibrating() call) and "update" (an
                 \* update() that was not due) were made since that current()
    between,     \* <<since>> as it was when the latest call, a current(), followed
                 \* another current() with no due update in between, else <<>>
    synth,       \* TRUE if the latest due update replaced the bounds by raw -/+ 50
    \* ---- main.cpp: the timers of loop() and what it put out in its latest iteration
    serialTick,  \* Utils::Ticker{1000}
    renderTick,  \* Utils::Ticker{250}
    logged,      \* <<[temp, hum, soil, light, sampled]>>: the log line written in the
                 \* latest iteration (a field is <<value>>, or <<>> for dashes) and
                 \* whether the sample timer fired in that iteration, or <<>>
    shown        \* <<[r, cal]>>: what the latest iteration rendered, or <<>>

tickerVars == <<tk, tkCall, tkFire, tkPrevFire, tkPrevNow, tkMono>>
mapVars == <<mArgs, mOp, mRes, mArgs2, mRes2>>
sensorVars == <<cur_, bootMs_, ldrMin_, ldrMax_, sampleTick>>
envVars == <<millis, phase, call, lastIn, got, nCalls, nDue, obsMin, obsMax, allCal,
             frozen, wrapped, prevValid, lastGot, since, between, synth>>
mainVars == <<serialTick, renderTick, logged, shown>>

vars == <<tickerVars, mapVars, sensorVars, envVars, mainVars>>

---------------------------------------------------------------------------
(* uint32_t as two 16-bit limbs *)

Limb == 2^16

\* the uint32_t whose value is the natural number n < 2^31
U32(n) == <<n \div Limb, n % Limb>>

\* the uint32_t 2^32 - n, for 0 < n <= 2^16
U32Neg(n) == <<Limb - 1, Limb - n>>

\* a + b in uint32_t (modulo 2^32)
Add32(a, b) ==
    LET lo == a[2] + b[2]
        hi == a[1] + b[1] + (lo \div Limb)
    IN  <<hi % Limb, lo % Limb>>

\* a - b in uint32_t (modulo 2^32): the borrow out of the top limb is dropped
Sub32(a, b) ==
    LET lo == a[2] - b[2]
        hi == a[1] - b[1] - (IF lo < 0 THEN 1 ELSE 0)
    IN  <<hi % Limb, lo % Limb>>

\* a < b, a >= b on uint32_t
Lt32(a, b) == a[1] < b[1] \/ (a[1] = b[1] /\ a[2] < b[2])
Ge32(a, b) == ~Lt32(a, b)

---------------------------------------------------------------------------
(* int (32-bit two's complement) arithmetic on 16-bit halves *)

INT_MAX == (Limb \div 2 - 1) * Limb + (Limb - 1)
INT_MIN == (-(Limb \div 2)) * Limb

\* the int with high half hi (taken modulo 2^16, read as signed) and low half lo
JoinInt(hi, lo) == (((hi + Limb \div 2) % Limb) - Limb \div 2) * Limb + lo

\* a - b in int, wrapped into the 32-bit range
SubInt(a, b) ==
    LET lo == (a % Limb) - (b % Limb)
        hi == (a \div Limb) - (b \div Limb) - (IF lo < 0 THEN 1 ELSE 0)
    IN  JoinInt(hi, lo % Limb)

\* a + b in int, wrapped into the 32-bit range
AddInt(a, b) ==
    LET lo == (a % Limb) + (b % Limb)
        hi == (a \div Limb) + (b \div Limb) + (lo \div Limb)
    IN  JoinInt(hi, lo % Limb)

\* A plausible slip: the product kept in a 16-bit int, as on an AVR board
\* where int is 16 bits wide and the operands are not widened first.
MulInt16(a, b) ==
    LET al == a % Limb
        bl == b % Limb
        p0 == al * (bl % 256)
        p1 == al * (bl \div 256)
        lo == ((p0 % Limb) + (p1 % 256) * 256) % Limb
    IN  IF lo >= Limb \div 2 THEN lo - Limb ELSE lo

\* a * b in int, wrapped into the 32-bit range
MulInt(a, b) ==
    LET al == a % Limb
        ah == a \div Limb
        bl == b % Limb
        bh == b \div Limb
        p0 == al * (bl % 256)            \* al * low byte of bl, below 2^24
        p1 == al * (bl \div 256)         \* al * high byte of bl, to be shifted by 8
        lo == (p0 % Limb) + (p1 % 256) * 256
        hi == (p0 \div Limb) + (p1 \div 256) + (lo \div Limb)
                + ((ah * bl) % Limb) + ((al * bh) % Limb)
    IN  JoinInt(hi, lo % Limb)

\* a / b in int for b # 0: the quotient truncated toward zero, as C++ divides;
\* INT_MIN / -1 wraps to INT_MIN
RECURSIVE DivInt(_, _)
DivInt(a, b) ==
    IF b = INT_MIN THEN (IF a = INT_MIN THEN 1 ELSE 0)
    ELSE IF b < 0 THEN SubInt(0, DivInt(a, -b))
    ELSE IF a >= 0 \/ a % b = 0 THEN a \div b
    ELSE (a \div b) + 1

\* whether the exact a - b, a + b, a * b, a / b is outside the int range
SubOverflows(a, b) ==
    LET lo == (a % Limb) - (b % Limb)
        hi == (a \div Limb) - (b \div Limb) - (IF lo < 0 THEN 1 ELSE 0)
    IN  hi < -(Limb \div 2) \/ hi > Limb \div 2 - 1

AddOverflows(a, b) ==
    LET lo == (a % Limb) + (b % Limb)
        hi == (a \div Limb) + (b \div Limb) + (lo \div Limb)
    IN  hi < -(Limb \div 2) \/ hi > Limb \div 2 - 1

MulOverflows(a, b) ==
    IF a = 0 \/ b = 0 THEN FALSE
    ELSE IF b = -1 THEN a = INT_MIN
    ELSE IF b > 0 THEN a > DivInt(INT_MAX, b) \/ a < DivInt(INT_MIN, b)
    ELSE a < DivInt(INT_MAX, b) \/ a > DivInt(INT_MIN, b)

DivOverflows(a, b) == a = INT_MIN /\ b = -1

---------------------------------------------------------------------------
(* Range mapper: Utils::mapConstrain, Utils::mapConstrainBi *)

\* Arduino's min(a,b), max(a,b) and constrain(amt,low,high) macros
min(a, b) == IF a < b THEN a ELSE b
max(a, b) == IF a > b THEN a ELSE b
constrain(amt, low, high) == IF amt < low THEN low ELSE IF amt > high THEN high ELSE amt

\* A plausible slip: the degenerate input range answered with the other output bound.
mapConstrainDegenerateMax(x, in_min, in_max, out_min, out_max) ==
    IF in_min = in_max THEN out_max
    ELSE AddInt(DivInt(MulInt(SubInt(constrain(x, min(in_min, in_max), max(in_min, in_max)),
                                     in_min),
                              SubInt(out_max, out_min)),
                       SubInt(in_max, in_min)),
                out_min)

\* A plausible slip: x not constrained to the input range before it is mapped.
mapConstrainNoClamp(x, in_min, in_max, out_min, out_max) ==
    IF in_min = in_max THEN out_min
    ELSE AddInt(DivInt(MulInt(SubInt(x, in_min), SubInt(out_max, out_min)),
                       SubInt(in_max, in_min)),
                out_min)

\* int Utils::mapConstrain(int x, int in_min, int in_max, int out_min, int out_max)
\* as the ESP32 build computes it: int and long are both 32 bits wide and the
\* subtract, multiply and add instructions wrap.
mapConstrain(x, in_min, in_max, out_min, out_max) ==
    IF in_min = in_max THEN out_min
    ELSE LET xc  == constrain(x, min(in_min, in_max), max(in_min, in_max))
             val == AddInt(DivInt(MulInt(SubInt(xc, in_min), SubInt(out_max, out_min)),
                                  SubInt(in_max, in_min)),
                           out_min)
         IN  val

\* Whether some signed operation of mapConstrain overflows on these arguments
\* (undefined behaviour: the build may wrap or, with overflow checks, trap).
mapConstrainOverflows(x, in_min, in_max, out_min, out_max) ==
    IF in_min = in_max THEN FALSE
    ELSE LET xc   == constrain(x, min(in_min, in_max), max(in_min, in_max))
             num  == SubInt(xc, in_min)
             rng  == SubInt(out_max, out_min)
             den  == SubInt(in_max, in_min)
             prod == MulInt(num, rng)
         IN  \/ SubOverflows(xc, in_min)
             \/ SubOverflows(out_max, out_min)
             \/ SubOverflows(in_max, in_min)
             \/ MulOverflows(num, rng)
             \/ DivOverflows(prod, den)
             \/ AddOverflows(DivInt(prod, den), out_min)

\* A plausible slip: the inverted orientation exchanges the input bounds but
\* not the output bounds.
mapConstrainBiNoSwap(x, inA, inB, outMin, outMax) ==
    IF inA = inB THEN outMin
    ELSE IF inA < inB THEN mapConstrain(x, inA, inB, outMin, outMax)
    ELSE mapConstrain(x, inB, inA, outMin, outMax)

\* int Utils::mapConstrainBi(int x, int inA, int inB, int outMin, int outMax)
mapConstrainBi(x, inA, inB, outMin, outMax) ==
    IF inA = inB THEN outMin
    ELSE IF inA < inB THEN mapConstrain(x, inA, inB, outMin, outMax)
    ELSE mapConstrain(x, inB, inA, outMax, outMin)

mapConstrainBiOverflows(x, inA, inB, outMin, outMax) ==
    IF inA = inB THEN FALSE
    ELSE IF inA < inB THEN mapConstrainOverflows(x, inA, inB, outMin, outMax)
    ELSE mapConstrainOverflows(x, inB, inA, outMax, outMin)

---------------------------------------------------------------------------
(* Utils::Ticker *)

\* explicit Ticker(uint32_t periodMs = 1000) : period(periodMs) {}  with last{0}
Ticker(periodMs) == [period |-> periodMs, last |-> U32(0)]

\* void set(uint32_t ms) { period = ms; }
set(t, ms) == [t EXCEPT !.period = ms]

\* A plausible slip: the deadline compared as now >= last + period, which is
\* not safe across the wraparound of the millisecond counter.
dueDeadline(t, now) ==
    IF Ge32(now, Add32(t.last, t.period))
    THEN [ret |-> TRUE,  tk |-> [t EXCEPT !.last = now]]
    ELSE [ret |-> FALSE, tk |-> t]

\* A plausible slip: a fixed-phase schedule, last advanced by one period.
duePhase(t, now) ==
    IF Ge32(Sub32(now, t.last), t.period)
    THEN [ret |-> TRUE,  tk |-> [t EXCEPT !.last = Add32(t.last, t.period)]]
    ELSE [ret |-> FALSE, tk |-> t]

\* bool due(uint32_t now): the result and the ticker after the call
due(t, now) ==
    IF Ge32(Sub32(now, t.last), t.period)
    THEN [ret |-> TRUE,  tk |-> [t EXCEPT !.last = now]]
    ELSE [ret |-> FALSE, tk |-> t]

---------------------------------------------------------------------------
(* Config.h and the Readings record *)

SOIL_RAW_AIR == 3000
SOIL_RAW_WATER == 1200
LDR_CALIBRATION_MS == 10000
SENSOR_SAMPLE_MS == 1000

\* a float: NAN, or a number
NAN == [nan |-> TRUE, v |-> 0]
Float(v) == [nan |-> FALSE, v |-> v]
isnan(f) == f.nan

\* struct Readings with its default member initializers
Readings ==
    [tempC |-> NAN, humidity |-> NAN, soilPct |-> -1, lightPct |-> -1,
     soilRaw |-> -1, ldrRaw |-> -1]

---------------------------------------------------------------------------
(* class Sensors *)

\* bool calibrating(uint32_t nowMs) const
calibrating(nowMs) == Lt32(Sub32(nowMs, bootMs_), U32(LDR_CALIBRATION_MS))

\* A plausible slip: a failed read (NAN) skips the store and keeps the old value.
sampleDHTKeep(c, t, h) ==
    [c EXCEPT !.tempC = IF isnan(t) THEN @ ELSE t,
              !.humidity = IF isnan(h) THEN @ ELSE h]

\* void Sensors::sampleDHT(): t and h are what dht.readTemperature() and
\* dht.readHumidity() return (NAN on a failed read)
sampleDHT(c, t, h) == [c EXCEPT !.tempC = t, !.humidity = h]

\* A plausible slip: the two calibration endpoints exchanged.
sampleSoilSwapped(c, raw) ==
    [c EXCEPT !.soilRaw = raw,
              !.soilPct = mapConstrainBi(raw, SOIL_RAW_AIR, SOIL_RAW_WATER, 100, 0)]

\* void Sensors::sampleSoil(): raw is what analogRead(SOIL_ADC_PIN) returns
sampleSoil(c, raw) ==
    [c EXCEPT !.soilRaw = raw,
              !.soilPct = mapConstrainBi(raw, SOIL_RAW_WATER, SOIL_RAW_AIR, 100, 0)]

\* A plausible slip: the ldrMin_ == ldrMax_ test made before the bounds are
\* tracked instead of after.
sampleLDRTestFirst(s, nowMs, raw) ==
    LET cal == calibrating(nowMs)
        deg == (s.ldrMin = s.ldrMax)
        mn1 == IF deg THEN max(0, raw - 50) ELSE s.ldrMin
        mx1 == IF deg THEN min(4095, raw + 50) ELSE s.ldrMax
        mn2 == IF cal /\ raw < mn1 THEN raw ELSE mn1
        mx2 == IF cal /\ raw > mx1 THEN raw ELSE mx1
    IN  [cur    |-> [s.cur EXCEPT !.ldrRaw = raw,
                                  !.lightPct = mapConstrainBi(raw, mn2, mx2, 0, 100)],
         ldrMin |-> mn2,
         ldrMax |-> mx2,
         synth  |-> deg]

\* A plausible slip: the synthetic range not clamped to the ADC range.
sampleLDRNoClamp(s, nowMs, raw) ==
    LET cal == calibrating(nowMs)
        mn1 == IF cal /\ raw < s.ldrMin THEN raw ELSE s.ldrMin
        mx1 == IF cal /\ raw > s.ldrMax THEN raw ELSE s.ldrMax
        mn2 == IF mn1 = mx1 THEN raw - 50 ELSE mn1
        mx2 == IF mn1 = mx1 THEN raw + 50 ELSE mx1
    IN  [cur    |-> [s.cur EXCEPT !.ldrRaw = raw,
                                  !.lightPct = mapConstrainBi(raw, mn2, mx2, 0, 100)],
         ldrMin |-> mn2,
         ldrMax |-> mx2,
         synth  |-> (mn1 = mx1)]

\* void Sensors::sampleLDR(uint32_t nowMs) on s = [cur, ldrMin, ldrMax]: raw is
\* what analogRead(LDR_ADC_PIN) returns; the result also tells whether the
\* ldrMin_ == ldrMax_ branch was taken
sampleLDR(s, nowMs, raw) ==
    LET cal == calibrating(nowMs)
        mn1 == IF cal /\ raw < s.ldrMin THEN raw ELSE s.ldrMin
        mx1 == IF cal /\ raw > s.ldrMax THEN raw ELSE s.ldrMax
        mn2 == IF mn1 = mx1 THEN max(0, raw - 50) ELSE mn1
        mx2 == IF mn1 = mx1 THEN min(4095, raw + 50) ELSE mx1
    IN  [cur    |-> [s.cur EXCEPT !.ldrRaw = raw,
                                  !.lightPct = mapConstrainBi(raw, mn2, mx2, 0, 100)],
         ldrMin |-> mn2,
         ldrMax |-> mx2,
         synth  |-> (mn1 = mx1)]

\* A plausible slip: the temperature/humidity read done before the timer check.
updateEager(s, nowMs, in) ==
    LET r  == due(s.sampleTick, nowMs)
        c1 == sampleDHT(s.cur, in.t, in.h)
        c2 == sampleSoil(c1, in.soil)
        l  == sampleLDR([cur |-> c2, ldrMin |-> s.ldrMin, ldrMax |-> s.ldrMax],
                        nowMs, in.ldr)
    IN  IF ~r.ret
        THEN [cur |-> c1, ldrMin |-> s.ldrMin, ldrMax |-> s.ldrMax,
              sampleTick |-> r.tk, due |-> FALSE, synth |-> FALSE]
        ELSE [cur |-> l.cur, ldrMin |-> l.ldrMin, ldrMax |-> l.ldrMax,
              sampleTick |-> r.tk, due |-> TRUE, synth |-> l.synth]

\* void Sensors::update(uint32_t nowMs) on s = [cur, ldrMin, ldrMax, sampleTick],
\* with in = [t, h, soil, ldr] what the sensors return if they are read; the
\* result also tells whether the sample timer fired and whether sampleLDR took
\* its ldrMin_ == ldrMax_ branch
update(s, nowMs, in) ==
    LET r  == due(s.sampleTick, nowMs)
        c1 == sampleDHT(s.cur, in.t, in.h)
        c2 == sampleSoil(c1, in.soil)
        l  == sampleLDR([cur |-> c2, ldrMin |-> s.ldrMin, ldrMax |-> s.ldrMax],
                        nowMs, in.ldr)
    IN  IF ~r.ret
        THEN [cur |-> s.cur, ldrMin |-> s.ldrMin, ldrMax |-> s.ldrMax,
              sampleTick |-> r.tk, due |-> FALSE, synth |-> FALSE]
        ELSE [cur |-> l.cur, ldrMin |-> l.ldrMin, ldrMax |-> l.ldrMax,
              sampleTick |-> r.tk, due |-> TRUE, synth |-> l.synth]

\* Readings current() const
current == cur_

---------------------------------------------------------------------------
(* Parts of the state that a specification leaves alone *)

\* the range mapper, not called
MapIdle ==
    /\ mArgs = [x |-> 0, in_min |-> 0, in_max |-> 0, out_min |-> 0, out_max |-> 0]
    /\ mOp = "none"
    /\ mRes = [trap |-> FALSE, v |-> 0]
    /\ mArgs2 = mArgs
    /\ mRes2 = [trap |-> FALSE, v |-> 0]

\* the free-standing Ticker, not called
TickerIdle ==
    /\ tk = Ticker(U32(1000))
    /\ tkCall = [op |-> "new", now |-> U32(0), ret |-> FALSE, pre |-> tk]
    /\ tkFire = <<>>
    /\ tkPrevFire = <<>>
    /\ tkPrevNow = <<>>
    /\ tkMono = TRUE

\* a Sensors object as constructed (Sensors.h member initializers), at clock t
SensorsNew(t) ==
    /\ cur_ = Readings
    /\ bootMs_ = U32(0)
    /\ ldrMin_ = 4095
    /\ ldrMax_ = 0
    /\ sampleTick = Ticker(U32(SENSOR_SAMPLE_MS))
    /\ millis = t
    /\ phase = "constructed"
    /\ call = [op |-> "new", due |-> FALSE, cal |-> FALSE]
    /\ lastIn = [t |-> NAN, h |-> NAN, soil |-> -1, ldr |-> -1]
    /\ got = <<>>
    /\ nCalls = 0
    /\ nDue = 0
    /\ obsMin = 4096
    /\ obsMax = -1
    /\ allCal = TRUE
    /\ frozen = FALSE
    /\ wrapped = FALSE
    /\ prevValid = FALSE
    /\ lastGot = <<>>
    /\ since = {}
    /\ between = <<>>
    /\ synth = FALSE

SensorsIdle == SensorsNew(U32(0))

\* A plausible slip: the serial log switched to twice a second.
MainNewHalfSecond ==
    /\ serialTick = Ticker(U32(500))
    /\ renderTick = Ticker(U32(250))
    /\ logged = <<>>
    /\ shown = <<>>

\* the timers of main.cpp as constructed, nothing logged or rendered yet
MainNew ==
    /\ serialTick = Ticker(U32(1000))
    /\ renderTick = Ticker(U32(250))
    /\ logged = <<>>
    /\ shown = <<>>

---------------------------------------------------------------------------
(* A free-standing Ticker driven with arbitrary timestamps *)

\* constructor and set() arguments
Periods == {U32(0), U32(1), U32(250), U32(1000)}

\* timestamps handed to due(): around the periods, mid-range and at the wrap
Stamps ==
    {U32(0), U32(1), U32(249), U32(250), U32(999), U32(1000), U32(1250),
     U32(1999), U32(2000), <<Limb \div 2, 0>>, <<Limb \div 2, 1000>>,
     U32Neg(1000), U32Neg(1)}

TickerInit ==
    /\ MapIdle
    /\ SensorsIdle
    /\ MainNew
    /\ tk \in {Ticker(p) : p \in Periods}
    /\ tkCall = [op |-> "new", now |-> U32(0), ret |-> FALSE, pre |-> tk]
    /\ tkFire = <<>>
    /\ tkPrevFire = <<>>
    /\ tkPrevNow = <<>>
    /\ tkMono = TRUE

TickerDue ==
    \E now \in Stamps :
        LET r == due(tk, now)
        IN  /\ tk' = r.tk
            /\ tkCall' = [op |-> "due", now |-> now, ret |-> r.ret, pre |-> tk]
            /\ tkFire' = IF r.ret THEN <<now>> ELSE tkFire
            /\ tkPrevFire' = IF r.ret THEN tkFire ELSE tkPrevFire
            /\ tkPrevNow' = <<now>>
            /\ tkMono' = (tkMono /\ (tkPrevNow = <<>> \/ Ge32(now, tkPrevNow[1])))
            /\ UNCHANGED <<mapVars, sensorVars, envVars, mainVars>>

TickerSet ==
    \E ms \in Periods :
        /\ tk' = set(tk, ms)
        /\ tkCall' = [op |-> "set", now |-> ms, ret |-> FALSE, pre |-> tk]
        /\ tkMono' = FALSE
        /\ UNCHANGED <<tkFire, tkPrevFire, tkPrevNow>>
        /\ UNCHANGED <<mapVars, sensorVars, envVars, mainVars>>

NextTicker == TickerDue \/ TickerSet

SpecTicker == TickerInit /\ [][NextTicker]_vars

---------------------------------------------------------------------------
(* Reference arithmetic used by the claims about the Ticker *)

\* (now - last) mod 2^32 by cases: the plain difference when now >= last,
\* otherwise what is left up to 2^32 - 1 after last, plus now, plus one.
Elapsed32(now, last) ==
    LET Plain(a, b) ==  \* a - b for a >= b, no wrap involved
            IF a[2] >= b[2] THEN <<a[1] - b[1], a[2] - b[2]>>
                            ELSE <<a[1] - b[1] - 1, a[2] + Limb - b[2]>>
        Inc(a) == IF a[2] = Limb - 1 THEN <<a[1] + 1, 0>> ELSE <<a[1], a[2] + 1>>
        Top == <<Limb - 1, Limb - 1>>
    IN  IF Ge32(now, last) THEN Plain(now, last)
        ELSE LET room == Plain(Top, last)      \* 2^32 - 1 - last
                 back == Plain(Top, room)      \* = last, so now < back
             IN  \* room + now + 1 < 2^32 because now < last
                 Inc(<<room[1] + now[1] + ((room[2] + now[2]) \div Limb),
                       (room[2] + now[2]) % Limb>>)

\* C1: due(now) returns true exactly when (now - last) mod 2^32 >= period,
\* also when now has wrapped around below last; on true last becomes now (period
\* kept), on false last and period are both unchanged.
C1_DueIffElapsed ==
    tkCall.op = "due" =>
        /\ tkCall.ret = Ge32(Elapsed32(tkCall.now, tkCall.pre.last), tkCall.pre.period)
        /\ tkCall.ret => (tk.last = tkCall.now /\ tk.period = tkCall.pre.period)
        /\ ~tkCall.ret => tk = tkCall.pre

\* a due() that fired although now had wrapped around below last
C1_Witness ==
    /\ tkCall.op = "due"
    /\ tkCall.ret
    /\ Lt32(tkCall.now, tkCall.pre.last)
    /\ tk.last = tkCall.now

\* C2: with period >= 1, non-decreasing timestamps and no set(), once due(t)
\* returned true a later due(u) returns false while u - t < period and true as
\* soon as u - t >= period; so two consecutive firings are at least a period apart.
C2_OncePerPeriod ==
    (tkCall.op = "due" /\ tkMono /\ Lt32(U32(0), tk.period)) =>
        /\ (~tkCall.ret /\ tkFire # <<>>) =>
               /\ Ge32(tkCall.now, tkFire[1])
               /\ Lt32(Elapsed32(tkCall.now, tkFire[1]), tk.period)
        /\ (tkCall.ret /\ tkPrevFire # <<>>) =>
               /\ Ge32(tkCall.now, tkPrevFire[1])
               /\ Ge32(Elapsed32(tkCall.now, tkPrevFire[1]), tk.period)
        /\ (tkFire # <<>>) => tk.last = tkFire[1]

\* a second firing exactly one period after the first one
C2_Witness ==
    /\ tkCall.op = "due" /\ tkMono /\ Lt32(U32(0), tk.period)
    /\ tkCall.ret
    /\ tkPrevFire # <<>>
    /\ tkCall.now = Add32(tkPrevFire[1], tk.period)

---------------------------------------------------------------------------
(* The range mapper applied once to arguments drawn from a bounded set *)

\* arguments: ADC-scale values, negatives, and magnitudes whose products
\* exceed 2^31
MapInts == {-50000, -7, 0, 3, 100, 4095, 50000}

\* What a call can yield: the computed value, or, when a signed operation
\* overflowed (undefined behaviour), the wrapped value or a trap.
Outcomes(overflows, v) ==
    IF overflows THEN {[trap |-> FALSE, v |-> v], [trap |-> TRUE, v |-> 0]}
    ELSE {[trap |-> FALSE, v |-> v]}

MapInit ==
    /\ TickerIdle
    /\ SensorsIdle
    /\ MainNew
    /\ mArgs \in [x : MapInts, in_min : MapInts, in_max : MapInts,
                   out_min : MapInts, out_max : MapInts]
    /\ mOp = "none"
    /\ mRes = [trap |-> FALSE, v |-> 0]
    /\ mArgs2 = mArgs
    /\ mRes2 = [trap |-> FALSE, v |-> 0]

ApplyMapConstrain ==
    /\ mOp = "none"
    /\ mOp' = "mapConstrain"
    /\ mRes' \in Outcomes(
            mapConstrainOverflows(mArgs.x, mArgs.in_min, mArgs.in_max,
                                  mArgs.out_min, mArgs.out_max),
            mapConstrain(mArgs.x, mArgs.in_min, mArgs.in_max,
                         mArgs.out_min, mArgs.out_max))
    /\ UNCHANGED <<mArgs, mArgs2, mRes2, tickerVars, sensorVars, envVars, mainVars>>

ApplyMapConstrainBi ==
    /\ mOp = "none"
    /\ mOp' = "mapConstrainBi"
    /\ mRes' \in Outcomes(
            mapConstrainBiOverflows(mArgs.x, mArgs.in_min, mArgs.in_max,
                                    mArgs.out_min, mArgs.out_max),
            mapConstrainBi(mArgs.x, mArgs.in_min, mArgs.in_max,
                           mArgs.out_min, mArgs.out_max))
    /\ UNCHANGED <<mArgs, mArgs2, mRes2, tickerVars, sensorVars, envVars, mainVars>>

\* How a build treats signed overflow: the ESP32 instructions wrap; a build
\* with overflow checks traps.  One program is one build.
Builds == {"wrap", "trap"}

\* mapConstrain / mapConstrainBi called by build b with the arguments a
CallMapConstrain(b, a) ==
    IF b = "trap" /\ mapConstrainOverflows(a.x, a.in_min, a.in_max, a.out_min, a.out_max)
    THEN [trap |-> TRUE, v |-> 0]
    ELSE [trap |-> FALSE,
          v |-> mapConstrain(a.x, a.in_min, a.in_max, a.out_min, a.out_max)]

CallMapConstrainBi(b, a) ==
    IF b = "trap" /\ mapConstrainBiOverflows(a.x, a.in_min, a.in_max, a.out_min, a.out_max)
    THEN [trap |-> TRUE, v |-> 0]
    ELSE [trap |-> FALSE,
          v |-> mapConstrainBi(a.x, a.in_min, a.in_max, a.out_min, a.out_max)]

\* mapConstrainBi(x, a, b, lo, hi) and then mapConstrainBi(x, b, a, hi, lo)
ApplyMirrored ==
    /\ mOp = "none"
    /\ mOp' = "mirrored"
    /\ mArgs2' = [x |-> mArgs.x, in_min |-> mArgs.in_max, in_max |-> mArgs.in_min,
                  out_min |-> mArgs.out_max, out_max |-> mArgs.out_min]
    /\ \E b \in Builds :
        /\ mRes' = CallMapConstrainBi(b, mArgs)
        /\ mRes2' = CallMapConstrainBi(b, mArgs2')
    /\ UNCHANGED <<mArgs, tickerVars, sensorVars, envVars, mainVars>>

\* mapConstrain(x, ...) and then mapConstrain(x2, ...) with the same ranges
ApplyTwice ==
    /\ mOp = "none"
    /\ mOp' = "twice"
    /\ \E x2 \in MapInts : mArgs2' = [mArgs EXCEPT !.x = x2]
    /\ \E b \in Builds :
        /\ mRes' = CallMapConstrain(b, mArgs)
        /\ mRes2' = CallMapConstrain(b, mArgs2')
    /\ UNCHANGED <<mArgs, tickerVars, sensorVars, envVars, mainVars>>

NextMap == ApplyMapConstrain \/ ApplyMapConstrainBi \/ ApplyMirrored \/ ApplyTwice

SpecMap == MapInit /\ [][NextMap]_vars

\* C9: for in_min # in_max (either orientation) the result of mapConstrain
\* lies within [min(out_min, out_max), max(out_min, out_max)].
C9_MapWithinOutputRange ==
    (mOp = "mapConstrain" /\ mArgs.in_min # mArgs.in_max) =>
        /\ ~mRes.trap
        /\ min(mArgs.out_min, mArgs.out_max) <= mRes.v
        /\ mRes.v <= max(mArgs.out_min, mArgs.out_max)

\* The same, restricted to calls none of whose operations overflows int.
C9_WithinRangeWithoutOverflow ==
    (/\ mOp = "mapConstrain"
     /\ mArgs.in_min # mArgs.in_max
     /\ ~mapConstrainOverflows(mArgs.x, mArgs.in_min, mArgs.in_max,
                               mArgs.out_min, mArgs.out_max)) =>
        /\ ~mRes.trap
        /\ min(mArgs.out_min, mArgs.out_max) <= mRes.v
        /\ mRes.v <= max(mArgs.out_min, mArgs.out_max)

\* C13: for a # b, mapConstrainBi(x, a, b, lo, hi) and mapConstrainBi(x, b, a, hi, lo)
\* give the same result (orientation symmetry).
C13_OrientationSymmetry ==
    (mOp = "mirrored" /\ mArgs.in_min # mArgs.in_max) => mRes2 = mRes

\* 3 on the falling range 100 -> 0 mapped onto 0 -> 100, and mirrored: 97 both times
C13_Witness ==
    /\ mOp = "mirrored"
    /\ mArgs.x = 3 /\ mArgs.in_min = 100 /\ mArgs.in_max = 0
    /\ mArgs.out_min = 0 /\ mArgs.out_max = 100
    /\ mArgs2.in_min = 0 /\ mArgs2.in_max = 100
    /\ mArgs2.out_min = 100 /\ mArgs2.out_max = 0
    /\ mRes = [trap |-> FALSE, v |-> 97]
    /\ mRes2 = mRes

\* C14: for fixed inMin < inMax and outMin < outMax, mapConstrain is
\* non-decreasing in x: x1 <= x2 implies result(x1) <= result(x2), also for x
\* outside [inMin, inMax].
C14_NonDecreasing ==
    (/\ mOp = "twice"
     /\ mArgs.in_min < mArgs.in_max
     /\ mArgs.out_min < mArgs.out_max
     /\ mArgs.x <= mArgs2.x) =>
        /\ ~mRes.trap
        /\ ~mRes2.trap
        /\ mRes.v <= mRes2.v

\* The same, restricted to pairs of calls none of whose operations overflows int.
C14_NonDecreasingWithoutOverflow ==
    (/\ mOp = "twice"
     /\ mArgs.in_min < mArgs.in_max
     /\ mArgs.out_min < mArgs.out_max
     /\ mArgs.x <= mArgs2.x
     /\ ~mapConstrainOverflows(mArgs.x, mArgs.in_min, mArgs.in_max,
                               mArgs.out_min, mArgs.out_max)
     /\ ~mapConstrainOverflows(mArgs2.x, mArgs2.in_min, mArgs2.in_max,
                               mArgs2.out_min, mArgs2.out_max)) =>
        /\ ~mRes.trap
        /\ ~mRes2.trap
        /\ mRes.v <= mRes2.v

\* C15: with a degenerate input range (in_min = in_max) mapConstrain and
\* mapConstrainBi both return out_min for every x, and nothing is computed on
\* the way (no division, so nothing that can trap).
C15_DegenerateInputRange ==
    (mOp \in {"mapConstrain", "mapConstrainBi"} /\ mArgs.in_min = mArgs.in_max) =>
        mRes = [trap |-> FALSE, v |-> mArgs.out_min]

\* mapConstrain(4095, 100, 100, 3, 50000) = 3
C15_Witness ==
    /\ mOp = "mapConstrain"
    /\ mArgs = [x |-> 4095, in_min |-> 100, in_max |-> 100, out_min |-> 3,
                out_max |-> 50000]
    /\ mRes = [trap |-> FALSE, v |-> 3]

\* x lies at bound a or beyond it, on the side away from bound b
AtOrBeyond(x, a, b) == IF a < b THEN x <= a ELSE x >= a

\* C20: for inA # inB, in both orientations, mapConstrainBi maps inA and every
\* x beyond inA (away from inB) to outMin, and inB and every x beyond inB to outMax.
C20_EndpointsAndClamping ==
    (mOp = "mapConstrainBi" /\ mArgs.in_min # mArgs.in_max) =>
        /\ AtOrBeyond(mArgs.x, mArgs.in_min, mArgs.in_max) =>
               mRes = [trap |-> FALSE, v |-> mArgs.out_min]
        /\ AtOrBeyond(mArgs.x, mArgs.in_max, mArgs.in_min) =>
               mRes = [trap |-> FALSE, v |-> mArgs.out_max]

\* The same, restricted to calls none of whose operations overflows int.
C20_EndpointsWithoutOverflow ==
    (/\ mOp = "mapConstrainBi"
     /\ mArgs.in_min # mArgs.in_max
     /\ ~mapConstrainBiOverflows(mArgs.x, mArgs.in_min, mArgs.in_max,
                                 mArgs.out_min, mArgs.out_max)) =>
        /\ AtOrBeyond(mArgs.x, mArgs.in_min, mArgs.in_max) =>
               mRes = [trap |-> FALSE, v |-> mArgs.out_min]
        /\ AtOrBeyond(mArgs.x, mArgs.in_max, mArgs.in_min) =>
               mRes = [trap |-> FALSE, v |-> mArgs.out_max]

---------------------------------------------------------------------------
(* The range mapper applied to ADC-scale arguments: raw readings and input *)
(* bounds of the 12-bit converter, output bounds that are percentages      *)

\* the largest value analogRead() returns at 12-bit resolution
ADC_MAX == 4095

\* raw readings and input bounds: both ends of the converter's range, their
\* neighbours, and values in between
AdcInts == {0, 1, 30, 2100, ADC_MAX - 1, ADC_MAX}

\* output bounds: both ends of the percentage scale, their neighbours, the middle
PctInts == {0, 1, 50, 99, 100}

AdcInit ==
    /\ TickerIdle
    /\ SensorsIdle
    /\ MainNew
    /\ mArgs \in [x : AdcInts, in_min : AdcInts, in_max : AdcInts,
                   out_min : PctInts, out_max : PctInts]
    /\ mOp = "none"
    /\ mRes = [trap |-> FALSE, v |-> 0]
    /\ mArgs2 = mArgs
    /\ mRes2 = [trap |-> FALSE, v |-> 0]

NextAdc == ApplyMapConstrain

SpecAdc == AdcInit /\ [][NextAdc]_vars

\* a / b for b # 0 on unbounded integers, truncated toward zero
TruncQuot(a, b) ==
    LET q == (IF a < 0 THEN -a ELSE a) \div (IF b < 0 THEN -b ELSE b)
    IN  IF (a < 0) # (b < 0) THEN -q ELSE q

\* The values mapConstrain computes for in_min # in_max, on unbounded integers:
\* the three differences, the product, the quotient and the result.
ExactSteps(x, in_min, in_max, out_min, out_max) ==
    LET xc   == constrain(x, min(in_min, in_max), max(in_min, in_max))
        num  == xc - in_min
        rng  == out_max - out_min
        den  == in_max - in_min
        prod == num * rng
        quot == TruncQuot(prod, den)
    IN  [num |-> num, rng |-> rng, den |-> den, prod |-> prod, quot |-> quot,
         val |-> quot + out_min]

FitsInt(v) == INT_MIN <= v /\ v <= INT_MAX

\* C21: for x, in_min, in_max in 0..4095 with in_min # in_max and out_min,
\* out_max in 0..100, every value mapConstrain computes on the way (the
\* differences, the product of the clamped x's offset with the output span,
\* the quotient, the sum) fits in a 32-bit int, no signed operation overflows,
\* and the result of the 32-bit computation is the result on unbounded integers.
C21_AdcScaleFitsInt ==
    (/\ mOp = "mapConstrain"
     /\ mArgs.x \in 0..ADC_MAX /\ mArgs.in_min \in 0..ADC_MAX /\ mArgs.in_max \in 0..ADC_MAX
     /\ mArgs.out_min \in 0..100 /\ mArgs.out_max \in 0..100
     /\ mArgs.in_min # mArgs.in_max) =>
        LET e == ExactSteps(mArgs.x, mArgs.in_min, mArgs.in_max,
                            mArgs.out_min, mArgs.out_max)
        IN  /\ \A f \in DOMAIN e : FitsInt(e[f])
            /\ ~mapConstrainOverflows(mArgs.x, mArgs.in_min, mArgs.in_max,
                                      mArgs.out_min, mArgs.out_max)
            /\ mRes = [trap |-> FALSE, v |-> e.val]

\* the largest product, 4095 * 100: mapConstrain(4095, 0, 4095, 0, 100) = 100
C21_Witness ==
    /\ mOp = "mapConstrain"
    /\ mArgs = [x |-> ADC_MAX, in_min |-> 0, in_max |-> ADC_MAX,
                out_min |-> 0, out_max |-> 100]
    /\ mRes = [trap |-> FALSE, v |-> 100]

---------------------------------------------------------------------------
(* The Sensors object driven as main.cpp drives it: begin() once, then     *)
(* update(now) with the advancing millisecond clock, current() and         *)
(* calibrating(now) in between.                                            *)

\* update() calls per run
MaxCalls == 3

\* millis() when begin() runs (setup() delays 200 ms before it)
BootStamps == {U32(0), U32(200)}

\* how far the clock moves between two reads of millis(): within a sample
\* period, a period, up to the edge of the calibration window, half the
\* counter range (two of them wrap the counter)
Deltas == {U32(1), U32(999), U32(1000), U32(9000), <<Limb \div 2, 0>>}
ShortDeltas == {U32(999), U32(1000)}

\* what the DHT22 driver returns: NAN for a failed read
TempReads == {NAN, Float(21)}
HumReads == {NAN, Float(40)}

\* what the 12-bit ADC returns on the soil pin and on the light pin
SoilRaws == {0, 1200, 1201, 2100, 3000, 4095}
LdrRaws == {30, 500, 600, 800, 1200, 4095}

Init ==
    /\ TickerIdle
    /\ MapIdle
    /\ MainNew
    /\ \E t \in BootStamps : SensorsNew(t)

\* void Sensors::begin()
Begin ==
    /\ phase = "constructed"
    /\ phase' = "running"
    /\ bootMs_' = millis
    /\ call' = [op |-> "begin", due |-> FALSE, cal |-> FALSE]
    /\ got' = <<>>
    /\ UNCHANGED <<cur_, ldrMin_, ldrMax_, sampleTick, millis, lastIn, nCalls, nDue,
                   obsMin, obsMax, allCal, frozen, wrapped, prevValid, lastGot, since,
                   between, synth>>
    /\ UNCHANGED <<tickerVars, mapVars, mainVars>>

\* What a sensor can return in the update made d ms from now: a value of
\* reads if the sample timer fires in it; no sensor is read if it does not,
\* and one value stands for the read that does not happen.
Read(reads, d) ==
    IF due(sampleTick, Add32(millis, d)).ret THEN reads ELSE {CHOOSE v \in reads : TRUE}

\* loop(): now = millis(); sensors.update(now), with the clock advanced by one
\* of deltas and the sensors returning values of temps, hums, soils and ldrs.
\* The counters nCalls and nDue stop counting at MaxCalls.
UpdateStep(deltas, temps, hums, soils, ldrs) ==
    /\ phase = "running"
    /\ \E d \in deltas :
        \E t \in Read(temps, d), h \in Read(hums, d), soil \in Read(soils, d),
           ldr \in Read(ldrs, d) :
        LET now == Add32(millis, d)
            in  == [t |-> t, h |-> h, soil |-> soil, ldr |-> ldr]
            cal == calibrating(now)
        IN  \E r \in {update([cur |-> cur_, ldrMin |-> ldrMin_, ldrMax |-> ldrMax_,
                              sampleTick |-> sampleTick], now, in)} :
            /\ millis' = now
            /\ cur_' = r.cur
            /\ ldrMin_' = r.ldrMin
            /\ ldrMax_' = r.ldrMax
            /\ sampleTick' = r.sampleTick
            /\ call' = [op |-> "update", due |-> r.due, cal |-> cal]
            /\ got' = <<>>
            /\ nCalls' = min(nCalls + 1, MaxCalls)
            /\ wrapped' = (wrapped \/ Lt32(now, millis))
            /\ IF r.due
               THEN /\ lastIn' = in
                    /\ nDue' = min(nDue + 1, MaxCalls)
                    /\ obsMin' = min(obsMin, ldr)
                    /\ obsMax' = max(obsMax, ldr)
                    /\ allCal' = (allCal /\ cal)
                    /\ frozen' = (frozen \/ ~cal)
                    /\ prevValid' = (~isnan(cur_.tempC) /\ ~isnan(cur_.humidity))
                    /\ lastGot' = <<>>
                    /\ since' = {}
                    /\ synth' = r.synth
               ELSE /\ since' = IF lastGot # <<>> THEN since \cup {"update"} ELSE since
                    /\ UNCHANGED <<lastIn, nDue, obsMin, obsMax, allCal, frozen,
                                   prevValid, lastGot, synth>>
            /\ between' = <<>>
    /\ UNCHANGED <<bootMs_, phase>>
    /\ UNCHANGED <<tickerVars, mapVars>>

\* the same, for at most MaxCalls calls per run and outside the main loop
UpdateWith(deltas, temps, hums, soils, ldrs) ==
    /\ nCalls < MaxCalls
    /\ UpdateStep(deltas, temps, hums, soils, ldrs)
    /\ UNCHANGED mainVars

\* update() with every light value and clock step, the other sensors steady
Update == UpdateWith(Deltas, {Float(21)}, {Float(40)}, {2100}, LdrRaws)

\* update() with every temperature, humidity and soil value, at the sample cadence
UpdateReadings == UpdateWith(ShortDeltas, TempReads, HumReads, SoilRaws, {800})

\* const Readings r = sensors.current()
Current ==
    /\ phase = "running"
    /\ call' = [op |-> "current", due |-> FALSE, cal |-> FALSE]
    /\ got' = <<current>>
    /\ lastGot' = <<current>>
    /\ since' = {}
    /\ between' = IF lastGot # <<>> THEN <<since>> ELSE <<>>
    /\ UNCHANGED <<sensorVars, millis, phase, lastIn, nCalls, nDue, obsMin, obsMax,
                   allCal, frozen, wrapped, prevValid, synth>>
    /\ UNCHANGED <<tickerVars, mapVars, mainVars>>

\* sensors.calibrating(now), with the timestamp of the current loop iteration
Calibrating ==
    /\ phase = "running"
    /\ call' = [op |-> "calibrating", due |-> FALSE, cal |-> calibrating(millis)]
    /\ got' = <<>>
    /\ since' = IF lastGot # <<>> THEN since \cup {"calibrating"} ELSE since
    /\ between' = <<>>
    /\ UNCHANGED <<sensorVars, millis, phase, lastIn, nCalls, nDue, obsMin, obsMax,
                   allCal, frozen, wrapped, prevValid, lastGot, synth>>
    /\ UNCHANGED <<tickerVars, mapVars, mainVars>>

\* the calibration as begin() and update() drive it
Next == Begin \/ Update

Spec == Init /\ [][Next]_vars

\* the snapshot as update() writes it and current() and calibrating() read it
NextReadings == Begin \/ UpdateReadings \/ Current \/ Calibrating

SpecReadings == Init /\ [][NextReadings]_vars

\* update() with the extreme analog values on both pins, at the sample cadence
\* and across half the counter range (so that the first due update can fall
\* outside the calibration window and the window can re-open)
RangeDeltas == {U32(1000), U32(9000), <<Limb \div 2, 0>>}
UpdateRanges ==
    UpdateWith(RangeDeltas, {Float(21)}, {Float(40)}, {0, 2100, 4095}, {0, 30, 500, 4095})

NextRanges == Begin \/ UpdateRanges

SpecRanges == Init /\ [][NextRanges]_vars

\* update() called for ever.  The clock advances in every call, by a quarter
\* or a half of the counter range (so it wraps again and again), by 999 ms
\* (less than a sample period) when it is a whole number of quarters past
\* begin(), and by 999 ms short of a quarter to get back there: every step is
\* above 0 and below 2^32 - SENSOR_SAMPLE_MS, and the clock takes finitely
\* many values.
Quarter == <<Limb \div 4, 0>>
SinceBoot == Sub32(millis, bootMs_)
LiveDeltas ==
    {Quarter, <<Limb \div 2, 0>>}
        \cup (IF SinceBoot[2] = 0 /\ SinceBoot[1] % (Limb \div 4) = 0
              THEN {U32(999)}
              ELSE {Sub32(Quarter, U32(999))})

UpdateLive ==
    /\ UpdateStep(LiveDeltas, TempReads, {Float(40)}, {2100}, {500, 800})
    /\ UNCHANGED mainVars

NextLive == Begin \/ UpdateLive

\* setup() runs begin() once and loop() never stops calling update(): after
\* begin() an update is always possible, so weak fairness of UpdateLive is that
\* update steps occur again and again.
SpecLive == Init /\ [][NextLive]_vars /\ WF_vars(Begin) /\ []<><<UpdateLive>>_vars

\* the fields of the serial log line for the readings r: dashes for an invalid
\* temperature or humidity and for a negative percentage
LogLine(r) ==
    [temp  |-> IF isnan(r.tempC) THEN <<>> ELSE <<r.tempC.v>>,
     hum   |-> IF isnan(r.humidity) THEN <<>> ELSE <<r.humidity.v>>,
     soil  |-> IF r.soilPct < 0 THEN <<>> ELSE <<r.soilPct>>,
     light |-> IF r.lightPct < 0 THEN <<>> ELSE <<r.lightPct>>]

\* how far the clock moves between two iterations of loop()
LoopDeltas == {U32(1), U32(250), U32(999), U32(1000), <<Limb \div 2, 0>>}

\* void loop(): one iteration.  What current() returns to it is kept in logged
\* and shown.
Loop ==
    /\ nCalls < MaxCalls
    /\ UpdateStep(LoopDeltas, TempReads, {Float(40)}, {2100}, {500, 800})
    /\ LET now == millis'
           r   == cur_'
           s   == due(serialTick, now)
           d   == due(renderTick, now)
       IN  /\ serialTick' = s.tk
           /\ logged' = IF s.ret
                        THEN <<[temp |-> LogLine(r).temp, hum |-> LogLine(r).hum,
                                soil |-> LogLine(r).soil, light |-> LogLine(r).light,
                                sampled |-> call'.due]>>
                        ELSE <<>>
           /\ renderTick' = d.tk
           /\ shown' = IF d.ret THEN <<[r |-> r, cal |-> calibrating(now)]>> ELSE <<>>

NextMain == Begin \/ Loop

SpecMain == Init /\ [][NextMain]_vars

\* the latest call was a due update
DueUpdate == call.op = "update" /\ call.due

---------------------------------------------------------------------------
(* Claims about the light calibration (specification Spec) *)

\* C3: from the initial calibration state, after due light samples all taken
\* while calibrating(now) is true and holding at least two distinct raw values,
\* ldrMin is the smallest and ldrMax the largest raw value sampled.
C3_BoundsAreSampledExtremes ==
    (nDue > 0 /\ allCal /\ obsMin # obsMax) =>
        (ldrMin_ = obsMin /\ ldrMax_ = obsMax)

\* What the code does keep: the bounds enclose every value sampled while calibrating.
C3_BoundsEncloseSamples ==
    (nDue > 0 /\ allCal) => (ldrMin_ <= obsMin /\ obsMax <= ldrMax_)

\* C4: once a due update happened at a timestamp with calibrating(now) false,
\* no later update changes ldrMin or ldrMax (the window never re-opens).
C4_FrozenAfterWindow ==
    [][frozen => (ldrMin_' = ldrMin_ /\ ldrMax_' = ldrMax_)]_vars

\* The bounds do stay frozen for as long as the millisecond counter has not wrapped.
C4_FrozenUntilWrap ==
    [][(frozen /\ ~wrapped') => (ldrMin_' = ldrMin_ /\ ldrMax_' = ldrMax_)]_vars

\* C5: after every due update ldrMin <= ldrMax, whether the first due update
\* falls inside or outside the calibration window.
C5_MinAtMostMax == nDue > 0 => ldrMin_ <= ldrMax_

\* The order does hold while every due update fell inside the window.
C5_MinAtMostMaxInWindow == (nDue > 0 /\ allCal) => ldrMin_ <= ldrMax_

\* C6: due samples of one and the same raw value r, all within the calibration
\* window, leave ldrMin = max(0, r - 50) and ldrMax = min(4095, r + 50) after
\* each of them, and lightPct = 50 whenever 50 <= r <= 4045.
C6_DegenerateRange ==
    (nDue > 0 /\ allCal /\ obsMin = obsMax) =>
        /\ ldrMin_ = (IF obsMin - 50 < 0 THEN 0 ELSE obsMin - 50)
        /\ ldrMax_ = (IF obsMin + 50 > 4095 THEN 4095 ELSE obsMin + 50)
        /\ (50 <= obsMin /\ obsMin <= 4045) => cur_.lightPct = 50

\* raw 500 sampled twice while calibrating: range [450, 550], 50 percent
C6_Witness ==
    /\ DueUpdate /\ nDue >= 2 /\ allCal
    /\ obsMin = 500 /\ obsMax = 500
    /\ ldrMin_ = 450 /\ ldrMax_ = 550 /\ cur_.lightPct = 50

\* C11: while the light sensor is calibrating lightPct holds the sentinel -1:
\* after a due update at a timestamp with calibrating(now) true, lightPct = -1.
C11_SentinelWhileCalibrating == (DueUpdate /\ call.cal) => cur_.lightPct = -1

\* What the code does: every due update, calibrating or not, stores a percentage.
C11_PercentageWhileCalibrating ==
    (DueUpdate /\ call.cal) => (0 <= cur_.lightPct /\ cur_.lightPct <= 100)

---------------------------------------------------------------------------
(* Claims about the percentages (specification SpecRanges) *)

Percent == 0..100

\* C12: soilPct and lightPct are each either the sentinel -1 or within 0..100 in
\* every reachable state, for every raw value and every calibration state
\* (ldrMin > ldrMax included), and neither is -1 once a due update has happened.
C12_PercentOrSentinel ==
    /\ cur_.soilPct \in Percent \cup {-1}
    /\ cur_.lightPct \in Percent \cup {-1}
    /\ nDue > 0 => (cur_.soilPct \in Percent /\ cur_.lightPct \in Percent)

\* raw 30 mapped through the inverted initial range 4095 > 0, dry soil at full scale
C12_Witness ==
    /\ DueUpdate
    /\ ldrMin_ > ldrMax_
    /\ cur_.ldrRaw = 30 /\ cur_.lightPct = 100
    /\ cur_.soilRaw = 4095 /\ cur_.soilPct = 0

\* C17: after every due update ldrMin # ldrMax, in or out of the calibration
\* window, so the light conversion never meets inA = inB; and the synthetic
\* raw -/+ 50 range is only ever installed by a sample taken inside a calibration
\* window while the bounds are still at their initial values 4095 and 0.
C17_NeverDegenerateAfterSample ==
    /\ [](nDue > 0 => ldrMin_ # ldrMax_)
    /\ [][(call'.op = "update" /\ call'.due /\ synth') =>
              (call'.cal /\ ldrMin_ = 4095 /\ ldrMax_ = 0)]_vars

\* the synthetic range installed in a window that the counter wrap re-opened,
\* after a due update outside the window had left the initial bounds in place
C17_Witness ==
    /\ DueUpdate /\ call.cal
    /\ synth
    /\ frozen /\ wrapped
    /\ ldrMin_ = 450 /\ ldrMax_ = 550

---------------------------------------------------------------------------
(* Claims about sampling for ever (specification SpecLive) *)

\* C18: while update(now) keeps being called with advancing timestamps (each
\* step below 2^32 - period) a due update occurs again and again, across
\* wraparounds of the counter; and whether a call is due depends on the time
\* elapsed since the last firing alone, not on what the sensors returned.
C18_SamplingProgress ==
    /\ []<><<call'.op = "update" /\ call'.due>>_vars
    /\ [][call'.op = "update" =>
              (call'.due <=> Ge32(Elapsed32(millis', sampleTick.last),
                                  U32(SENSOR_SAMPLE_MS)))]_vars

\* a due update after the counter wrapped, the third at least, right after one
\* whose temperature read had failed
C18_Witness ==
    /\ DueUpdate
    /\ wrapped
    /\ nDue = MaxCalls
    /\ ~prevValid
    /\ isnan(cur_.tempC)

---------------------------------------------------------------------------
(* Claims about the main loop (specification SpecMain) *)

\* C19: the serial-log timer and the sample timer stay in lock step: in every
\* loop iteration a log line is written exactly if the sample timer fired in
\* that iteration, the line shows the readings sampled in that iteration, and
\* so it never shows dashes for soil or light.
C19_LogInLockStep ==
    /\ serialTick = sampleTick
    /\ call.op = "update" => (logged # <<>> <=> call.due)
    /\ logged # <<>> =>
           /\ logged[1].sampled
           /\ logged[1].soil = <<mapConstrainBi(lastIn.soil, SOIL_RAW_WATER, SOIL_RAW_AIR,
                                               100, 0)>>
           /\ logged[1].light = <<cur_.lightPct>>
           /\ cur_.ldrRaw = lastIn.ldr
           /\ isnan(lastIn.t) <=> logged[1].temp = <<>>
           /\ logged[1].hum = <<lastIn.h.v>>

\* the second log line, written with dashes for a temperature read that failed
\* in this iteration, between two frames of the display
C19_Witness ==
    /\ DueUpdate
    /\ nDue = 2
    /\ logged # <<>>
    /\ logged[1].temp = <<>>
    /\ logged[1].soil = <<50>>
    /\ logged[1].light # <<>>
    /\ shown = <<>>

---------------------------------------------------------------------------
(* Claims about the snapshot (specification SpecReadings) *)

\* C7: in a due update whose temperature / humidity read fails, tempC / humidity
\* are overwritten with the invalid marker, and soilRaw, soilPct, ldrRaw and
\* lightPct are still set from the analog reads of that same update.
C7_FailedReadOverwrites ==
    nDue > 0 =>
        /\ isnan(lastIn.t) => isnan(cur_.tempC)
        /\ isnan(lastIn.h) => isnan(cur_.humidity)
        /\ cur_.soilRaw = lastIn.soil
        /\ cur_.soilPct = mapConstrainBi(lastIn.soil, SOIL_RAW_WATER, SOIL_RAW_AIR, 100, 0)
        /\ cur_.ldrRaw = lastIn.ldr
        /\ cur_.lightPct = mapConstrainBi(lastIn.ldr, ldrMin_, ldrMax_, 0, 100)

\* a due update with both reads failing, after one that stored valid values
C7_Witness ==
    /\ DueUpdate /\ prevValid
    /\ isnan(lastIn.t) /\ isnan(lastIn.h)
    /\ isnan(cur_.tempC) /\ isnan(cur_.humidity)
    /\ cur_.soilRaw = 1201 /\ cur_.soilPct = 100
    /\ cur_.ldrRaw = 800

\* C8: an update(now) for which the sample timer is not due changes neither the
\* snapshot, ldrMin, ldrMax nor the timer; so until the first due update, which
\* is the first call with now >= 1000, current() returns the default snapshot.
C8_NotDueChangesNothing ==
    /\ [][(call'.op = "update" /\ ~call'.due) =>
              UNCHANGED <<cur_, ldrMin_, ldrMax_, sampleTick>>]_vars
    /\ [](nDue = 0 => (current = Readings /\ (got # <<>> => got[1] = Readings)))
    /\ [][(nDue = 0 /\ call'.op = "update") =>
              (call'.due <=> Ge32(millis', U32(1000)))]_vars

\* an update that was not due, after one that was
C8_Witness ==
    /\ call.op = "update" /\ ~call.due
    /\ nDue >= 1
    /\ cur_ # Readings

\* C16: current() and calibrating(now) are pure reads: neither changes the
\* snapshot, ldrMin, ldrMax, bootMs_ or the sample timer; so a current() call
\* returns the same snapshot as the current() call before it when no due update
\* came in between, whatever calibrating() and not-due update() calls did.
C16_PureReads ==
    /\ [][call'.op \in {"current", "calibrating"} =>
              UNCHANGED <<cur_, ldrMin_, ldrMax_, bootMs_, sampleTick>>]_vars
    /\ [][(call'.op = "current" /\ lastGot # <<>>) => got' = lastGot]_vars

\* a second current() after a calibrating() and a not-due update(), same snapshot
C16_Witness ==
    /\ call.op = "current"
    /\ between = <<{"calibrating", "update"}>>
    /\ nDue >= 1
    /\ got = lastGot
    /\ got[1] = cur_
    /\ got[1] # Readings

\* the percentage C10 states for a raw soil value
SoilPctOf(raw) ==
    IF raw <= 1200 THEN 100
    ELSE IF raw >= 3000 THEN 0
    ELSE 100 - ((raw - 1200) * 100) \div (3000 - 1200)

\* C10: after every due update soilPct is 100 for soilRaw <= 1200, 0 for
\* soilRaw >= 3000, and in between the linear interpolation with the quotient
\* truncated toward zero; it is non-increasing in soilRaw.
C10_SoilPercent ==
    nDue > 0 =>
        /\ cur_.soilPct = SoilPctOf(cur_.soilRaw)
        /\ \A raw \in SoilRaws :
               raw <= cur_.soilRaw => sampleSoil(cur_, raw).soilPct >= cur_.soilPct

\* the midpoint 2100 reads 50 percent
C10_Witness == DueUpdate /\ cur_.soilRaw = 2100 /\ cur_.soilPct = 50

=============================================================================
